---- MODULE Spec2Model ----
(***************************************************************************)
(* A model of gi.bridge (internal/bridge/bridge.go): one Start call that   *)
(* binds a TCP listener, announces its address on the output stream and    *)
(* runs three families of tasks in one errgroup: the ingress loop          *)
(* (handleIncoming), the acceptor loop (handleAccept) and one egress       *)
(* handler per accepted connection (handleOutgoing).                       *)
(*                                                                         *)
(* Byte strings are sequences of one-character strings.  Every call of     *)
(* Write on the shared output stream is one entry of `out`; a bufio.Writer *)
(* hands an event to the stream in pieces of at most BufSize bytes.        *)
(***************************************************************************)
EXTENDS Integers, Sequences, FiniteSets, TLC

(***************************************************************************)
(* Bounds of the model.                                                    *)
(***************************************************************************)
\* connections the listener accepts in one run
MaxConns == 2
\* lines one peer sends before it closes
MaxLines == 1
\* longest line (without its newline) a peer sends
MaxPeerLen == 2
\* command lines upstream sends before the input ends
MaxCmds == 1
\* longest command line (without its newline)
MaxCmdLen == 3
\* lines one peer sends, and command lines upstream sends, in the runs that
\* are about order
OrderLines == 2
OrderCmds == 2
\* temporary Accept errors in one run
MaxTempErrs == 2
\* failures the environment injects in one run (a broken output stream, a
\* failed read, a failed Accept, a failed socket write)
MaxFaults == 1
\* size of a bufio.Writer's buffer (bufio's default is 4096; scaled down so
\* that the longest peer line does not fit, as a line of 4090 bytes does not)
BufSize == 6

(***************************************************************************)
(* Protocol constants (bridge.go, const block).                            *)
(***************************************************************************)
delim == ":"
prefixAddress == "a"
prefixConnect == "c"
prefixDisconnect == "d"
prefixReceive == "r"

NL == "\n"
\* the characters unicode.IsSpace accepts, as far as the alphabets hold them
WhiteSpace == {" ", "\t", "\r", NL}

\* the remote ports of peers, as net.SplitHostPort returns them.  The remote
\* host is left out of the model: the bridge never looks at it, and peers on
\* different hosts can hold the same port at the same time.
Ports == {<<"1">>, <<"2">>}
\* the listener's own address, as l.Addr() prints it
ListenAddr == <<"L">>

PeerAlphabet == {"x"}
CmdAlphabet == {"1", "2", delim, " ", "x"}

Conns == 1..MaxConns
\* the zero value a lookup of a missing key returns
NoConn == 0
\* a nil error; an error is <<task, connection, reason>>
NoErr == <<"none", 0, "">>

SeqsUpTo(A, n) == UNION {[1..k -> A] : k \in 0..n}

(***************************************************************************)
(* Pure functions of the standard library, as the code uses them.          *)
(***************************************************************************)
RECURSIVE TrimLeft(_)
TrimLeft(s) ==
    IF s # <<>> /\ Head(s) \in WhiteSpace THEN TrimLeft(Tail(s)) ELSE s

RECURSIVE TrimRight(_)
TrimRight(s) ==
    IF s # <<>> /\ s[Len(s)] \in WhiteSpace
    THEN TrimRight(SubSeq(s, 1, Len(s) - 1))
    ELSE s

\* strings.TrimSpace
TrimSpace(s) == TrimRight(TrimLeft(s))

\* index of the first delimiter of s, 0 when there is none
FirstDelim(s) ==
    IF \E i \in 1..Len(s) : s[i] = delim
    THEN CHOOSE i \in 1..Len(s) : s[i] = delim /\ \A j \in 1..(i - 1) : s[j] # delim
    ELSE 0

\* strings.SplitN(text, delim, 2)
SplitN2(text) ==
    IF FirstDelim(text) = 0
    THEN <<text>>
    ELSE <<SubSeq(text, 1, FirstDelim(text) - 1),
           SubSeq(text, FirstDelim(text) + 1, Len(text))>>

\* fmt.Sprintf("%s:%s\n", tag, a)
Encode1(tag, a) == <<tag, delim>> \o a \o <<NL>>
\* fmt.Sprintf("%s:%s:%s\n", tag, a, b)
Encode2(tag, a, b) == <<tag, delim>> \o a \o <<delim>> \o b \o <<NL>>

\* The Write calls a fresh bufio.Writer makes for WriteString(s) followed by
\* Flush(): while s is longer than the free buffer, the buffer is filled and
\* flushed; what is left is written by Flush.
RECURSIVE Pieces(_)
Pieces(s) ==
    IF Len(s) > BufSize
    THEN <<SubSeq(s, 1, BufSize)>> \o Pieces(SubSeq(s, BufSize + 1, Len(s)))
    ELSE <<s>>

(***************************************************************************)
(* State.                                                                  *)
(***************************************************************************)
VARIABLES
    startPc,    \* Start: "listen", "notify", "launch", "wait", "returned"
    result,     \* what Start returned (NoErr for nil)
    cancelled,  \* the errgroup's context is done
    firstErr,   \* the errgroup's first non-nil error
    out,        \* the Write calls the output stream took, in order
    outOk,      \* the output stream still accepts writes
    faults,     \* failures injected so far
    connMap,    \* b.connMap: port -> connection (NoConn: no entry)
    inPc,       \* handleIncoming: "idle", "read", "lookup", "done"
    inRet,      \* the value handleIncoming returned
    inLog,      \* the command lines read so far, in the order read
    lastIn,     \* the last command line read and what became of it
    sock,       \* per connection, the payloads written to its socket
    accPc,      \* handleAccept: "idle", "accept", "put", "notify", "spawn", "done"
    accConn,    \* the connection the acceptor is registering
    nconn,      \* connections accepted so far
    ntemp,      \* Accept calls that returned a temporary error so far
    remote,     \* per connection, the port of its remote address
    closed,     \* per connection, the bridge called conn.Close()
    sent,       \* per connection, the lines read from its socket, in order
    hPc,        \* handleOutgoing: "idle", "read", "write", "flush",
                \*   "dflush", "delete", "close", "done"
    hq,         \* per handler, the pieces of the current event still to write
    werr,       \* per handler, its bufio.Writer holds a (sticky) error
    hRet        \* per handler, the value its loop returned

vars == <<startPc, result, cancelled, firstErr, out, outOk, faults, connMap, inPc,
          inRet, inLog, lastIn, sock, accPc, accConn, nconn, ntemp, remote,
          closed, sent,
          hPc, hq, werr, hRet>>

startVars == <<startPc, result>>
groupVars == <<cancelled, firstErr>>
inVars == <<inPc, inRet, inLog, lastIn, sock>>
accVars == <<accPc, accConn, nconn, ntemp>>
peerVars == <<remote, sent>>
hVars == <<hPc, hq, werr, hRet, closed>>

\* New(in, out) followed by the entry into Start
Init ==
    /\ startPc = "listen"
    /\ result = NoErr
    /\ cancelled = FALSE
    /\ firstErr = NoErr
    /\ out = <<>>
    /\ outOk = TRUE
    /\ faults = 0
    /\ connMap = [p \in Ports |-> NoConn]
    /\ inPc = "idle"
    /\ inRet = NoErr
    /\ inLog = <<>>
    /\ lastIn = [data |-> <<>>, res |-> "none", c |-> NoConn]
    /\ sock = [c \in Conns |-> <<>>]
    /\ accPc = "idle"
    /\ accConn = NoConn
    /\ nconn = 0
    /\ ntemp = 0
    /\ remote = [c \in Conns |-> <<>>]
    /\ closed = [c \in Conns |-> FALSE]
    /\ sent = [c \in Conns |-> <<>>]
    /\ hPc = [c \in Conns |-> "idle"]
    /\ hq = [c \in Conns |-> <<>>]
    /\ werr = [c \in Conns |-> FALSE]
    /\ hRet = [c \in Conns |-> NoErr]

(***************************************************************************)
(* The shared pieces: the errgroup, the output stream, the registry.       *)
(***************************************************************************)
\* errgroup.Group.Go: a task returning a non-nil error records it if it is
\* the first and cancels the context.
TaskReturn(err) ==
    /\ firstErr' = IF err # NoErr /\ firstErr = NoErr THEN err ELSE firstErr
    /\ cancelled' = (cancelled \/ err # NoErr)

\* the environment injects one more failure
Fault == faults < MaxFaults /\ faults' = faults + 1

\* ctxio.Writer(ctx, b.out).Write succeeds: the context is not done and the
\* stream takes the bytes.
CanWrite == outOk /\ ~cancelled

\* one Write call on the output stream: tag, connection and line number say
\* which event the bytes belong to
WriteRec(tag, c, k, bytes) == [tag |-> tag, c |-> c, k |-> k, b |-> bytes]

\* the identifier of a connection: net.SplitHostPort(conn.RemoteAddr()),
\* host dropped
IdOf(c) == remote[c]

\* b.connMap[port], NoConn when port is no key
Lookup(port) == IF port \in Ports THEN connMap[port] ELSE NoConn

(***************************************************************************)
(* Start.                                                                  *)
(***************************************************************************)
\* a variant of StartNextPc that starts the loops before the address event
StartNextPc_LaunchFirst(pc) ==
    CASE pc = "listen" -> "launch"
      [] pc = "launch" -> "notify"
      [] pc = "notify" -> "wait"
      [] OTHER -> "returned"

\* the order of Start's statements after a successful Listen
StartNextPc(pc) ==
    CASE pc = "listen" -> "notify"
      [] pc = "notify" -> "launch"
      [] pc = "launch" -> "wait"
      [] OTHER -> "returned"

\* net.Listen succeeds
StartListen ==
    /\ startPc = "listen"
    /\ startPc' = StartNextPc(startPc)
    /\ UNCHANGED <<result, groupVars, out, outOk, faults, connMap, inVars, accVars,
                   peerVars, hVars>>

\* net.Listen fails: Start returns the error
StartListenFail ==
    /\ startPc = "listen"
    /\ startPc' = "returned"
    /\ result' = <<"start", 0, "listen">>
    /\ UNCHANGED <<groupVars, out, outOk, faults, connMap, inVars, accVars, peerVars,
                   hVars>>

\* the address event: WriteString (buffered) and Flush
StartNotify ==
    /\ startPc = "notify"
    /\ IF CanWrite
       THEN /\ out' = Append(out, WriteRec(prefixAddress, NoConn, 0,
                                           Encode1(prefixAddress, ListenAddr)))
            /\ startPc' = StartNextPc(startPc)
            /\ UNCHANGED result
       ELSE /\ startPc' = "returned"
            /\ result' = <<"start", 0, "flush">>
            /\ UNCHANGED out
    /\ UNCHANGED <<groupVars, outOk, faults, connMap, inVars, accVars, peerVars, hVars>>

\* the two g.Go calls
StartLaunch ==
    /\ startPc = "launch"
    /\ startPc' = StartNextPc(startPc)
    /\ inPc' = "read"
    /\ accPc' = "accept"
    /\ UNCHANGED <<result, groupVars, out, outOk, faults, connMap, inRet, inLog, lastIn, sock,
                   accConn, nconn, ntemp, peerVars, hVars>>

\* every task of the group has returned
AllReturned ==
    /\ inPc = "done"
    /\ accPc = "done"
    /\ \A c \in Conns : hPc[c] \in {"idle", "done"}

\* g.Wait returns once every task has returned
StartReturn ==
    /\ startPc = "wait"
    /\ AllReturned
    /\ startPc' = "returned"
    /\ result' = firstErr
    /\ cancelled' = TRUE
    /\ UNCHANGED <<firstErr, out, outOk, faults, connMap, inVars, accVars, peerVars,
                   hVars>>

\* upstream stops reading: every later write to the output stream fails
OutBreak ==
    /\ outOk
    /\ startPc # "returned"
    /\ outOk' = FALSE
    /\ Fault
    /\ UNCHANGED <<startVars, groupVars, out, connMap, inVars, accVars,
                   peerVars, hVars>>

(***************************************************************************)
(* handleIncoming.                                                         *)
(***************************************************************************)
\* every command line upstream can send, without the newline
CmdBodies == SeqsUpTo(CmdAlphabet, MaxCmdLen)

\* the command lines of the concurrent runs: one for each port and one
\* without a delimiter
CmdSample == {p \o <<delim, "x">> : p \in Ports} \cup {<<"x">>}

\* a variant of IngressAfter that returns from the loop when the socket
\* write failed
IngressAfter_WriteFatal(res) == IF res = "writefail" THEN "done" ELSE "read"

\* what the loop does after a line that was not delivered: `continue`
IngressAfter(res) == "read"

\* a variant of SockWrite in which a payload overtakes the ones written
\* before it
SockWrite_Overtake(q, expr) == <<expr>> \o q

\* conn.Write(expr) on a TCP socket: the bytes follow the ones written before
SockWrite(q, expr) == Append(q, expr)

\* the fields of the command line `data`
CmdFields(data) == SplitN2(TrimSpace(data))

\* One turn of the loop on the line `body` + newline, up to the registry
\* lookup: trim and split on the first delimiter. A line without two fields
\* is logged and skipped; otherwise the loop goes on to `b.connMap[port]`.
IngressLine(body) ==
    LET data == body \o <<NL>>
        m == CmdFields(data)
    IN  /\ inPc = "read"
        /\ inLog' = Append(inLog, data)
        /\ IF Len(m) # 2
           THEN /\ lastIn' = [data |-> data, res |-> "nodelim", c |-> NoConn]
                /\ inPc' = IngressAfter("nodelim")
           ELSE /\ lastIn' = [data |-> data, res |-> "lookup", c |-> NoConn]
                /\ inPc' = "lookup"
        /\ UNCHANGED <<startVars, groupVars, out, outOk, faults, connMap,
                       inRet, sock, accVars, peerVars, hVars>>

\* The rest of the turn: the lookup `b.connMap[port]` completes and the
\* expression is written to the socket found. `wok` is whether conn.Write
\* succeeds.
IngressDeliver(wok) ==
    LET m == CmdFields(lastIn.data)
        port == m[1]
        expr == m[2]
        conn == Lookup(port)
    IN  /\ inPc = "lookup"
        /\ IF conn = NoConn
           THEN /\ wok
                /\ UNCHANGED faults
                /\ lastIn' = [lastIn EXCEPT !.res = "miss"]
                /\ inPc' = IngressAfter("miss")
                /\ UNCHANGED sock
           ELSE IF ~wok \/ closed[conn]
           THEN /\ ~wok
                /\ Fault
                /\ lastIn' = [lastIn EXCEPT !.res = "writefail", !.c = conn]
                /\ inPc' = IngressAfter("writefail")
                /\ UNCHANGED sock
           ELSE /\ UNCHANGED faults
                /\ lastIn' = [lastIn EXCEPT !.res = "ok", !.c = conn]
                /\ inPc' = "read"
                /\ sock' = [sock EXCEPT ![conn] = SockWrite(@, expr)]
        /\ UNCHANGED <<startVars, groupVars, out, outOk, connMap, inRet,
                       inLog, accVars, peerVars, hVars>>

\* ReadString returns io.EOF or io.ErrClosedPipe: the loop returns nil
IngressEOF ==
    /\ inPc = "read"
    /\ inPc' = "done"
    /\ inRet' = NoErr
    /\ TaskReturn(NoErr)
    /\ UNCHANGED <<startVars, out, outOk, faults, connMap, inLog, lastIn, sock,
                   accVars, peerVars, hVars>>

\* ReadString returns another error: the loop returns it
IngressReadErr ==
    /\ inPc = "read"
    /\ inPc' = "done"
    /\ inRet' = <<"ingress", 0, "read">>
    /\ TaskReturn(<<"ingress", 0, "read">>)
    /\ Fault
    /\ UNCHANGED <<startVars, out, outOk, connMap, inLog, lastIn, sock,
                   accVars, peerVars, hVars>>

\* ctxio.Reader(ctx, b.in): the context is done, the read returns its error
IngressCancelled ==
    /\ inPc = "read"
    /\ cancelled
    /\ inPc' = "done"
    /\ inRet' = <<"ingress", 0, "context">>
    /\ TaskReturn(<<"ingress", 0, "context">>)
    /\ UNCHANGED <<startVars, out, outOk, faults, connMap, inLog, lastIn, sock,
                   accVars, peerVars, hVars>>

(***************************************************************************)
(* handleAccept.                                                           *)
(***************************************************************************)
\* a variant of AccNextPc that starts the handler before the connect event
AccNextPc_SpawnFirst(pc) ==
    CASE pc = "accept" -> "put"
      [] pc = "put" -> "spawn"
      [] pc = "spawn" -> "notify"
      [] OTHER -> "accept"

\* a variant of AccNextPc that announces the connection before it registers
\* it
AccNextPc_NotifyFirst(pc) ==
    CASE pc = "accept" -> "notify"
      [] pc = "notify" -> "put"
      [] pc = "put" -> "spawn"
      [] OTHER -> "accept"

\* the order of the loop's statements after a successful Accept
AccNextPc(pc) ==
    CASE pc = "accept" -> "put"
      [] pc = "put" -> "notify"
      [] pc = "notify" -> "spawn"
      [] OTHER -> "accept"

\* listener.Accept returns a connection whose remote port is `port`
AcceptConn(port) ==
    /\ accPc = "accept"
    /\ nconn < MaxConns
    /\ nconn' = nconn + 1
    /\ accConn' = nconn + 1
    /\ remote' = [remote EXCEPT ![nconn + 1] = port]
    /\ accPc' = AccNextPc(accPc)
    /\ UNCHANGED <<startVars, groupVars, out, outOk, faults, connMap, inVars,
                   ntemp, sent, hVars>>

\* a variant of AcceptTemporary without the check of Temporary(): the loop
\* returns the error
AcceptTemporary_Return ==
    /\ accPc = "accept"
    /\ ntemp' = ntemp + 1
    /\ accPc' = "done"
    /\ TaskReturn(<<"accept", 0, "accept">>)
    /\ UNCHANGED <<startVars, out, outOk, faults, connMap, inVars, accConn,
                   nconn, peerVars, hVars>>

\* listener.Accept returns a temporary net.Error: `continue`
AcceptTemporary ==
    /\ accPc = "accept"
    /\ ntemp' = ntemp + 1
    /\ accPc' = "accept"
    /\ UNCHANGED <<startVars, groupVars, out, outOk, faults, connMap, inVars,
                   accConn, nconn, peerVars, hVars>>

\* listener.Accept returns any other error: the loop returns it
AcceptFatal ==
    /\ accPc = "accept"
    /\ accPc' = "done"
    /\ TaskReturn(<<"accept", 0, "accept">>)
    /\ Fault
    /\ UNCHANGED <<startVars, out, outOk, connMap, inVars, accConn, nconn, ntemp,
                   peerVars, hVars>>

\* b.connMap[port] = conn
AccPut ==
    /\ accPc = "put"
    /\ connMap' = [connMap EXCEPT ![IdOf(accConn)] = accConn]
    /\ accPc' = AccNextPc(accPc)
    /\ UNCHANGED <<startVars, groupVars, out, outOk, faults, inVars, accConn, nconn, ntemp,
                   peerVars, hVars>>

\* the connect event: WriteString (buffered) and Flush
AccNotify ==
    /\ accPc = "notify"
    /\ IF CanWrite
       THEN /\ out' = Append(out, WriteRec(prefixConnect, accConn, 0,
                               Encode1(prefixConnect, IdOf(accConn))))
            /\ accPc' = AccNextPc(accPc)
            /\ UNCHANGED groupVars
       ELSE /\ accPc' = "done"
            /\ TaskReturn(<<"accept", accConn, "flush">>)
            /\ UNCHANGED out
    /\ UNCHANGED <<startVars, outOk, faults, connMap, inVars, accConn, nconn, ntemp,
                   peerVars, hVars>>

\* g.Go(handleOutgoing): the handler makes its reader and writer
AccSpawn ==
    /\ accPc = "spawn"
    /\ hPc' = [hPc EXCEPT ![accConn] = "read"]
    /\ accPc' = AccNextPc(accPc)
    /\ UNCHANGED <<startVars, groupVars, out, outOk, faults, connMap, inVars, accConn,
                   nconn, ntemp, peerVars, hq, werr, hRet, closed>>

(***************************************************************************)
(* handleOutgoing, one per accepted connection.                            *)
(***************************************************************************)
\* the lines a peer can send, without the newline
PeerLines == SeqsUpTo(PeerAlphabet, MaxPeerLen) \ {<<>>}

\* the order of the deferred function's statements
CleanupNextPc(pc) ==
    CASE pc = "dflush" -> "delete"
      [] pc = "delete" -> "close"
      [] OTHER -> "done"

\* where the loop goes with a fresh event: WriteString writes every piece
\* but the last, Flush writes the last
EmitPc(pieces) == IF Len(pieces) > 1 THEN "write" ELSE "flush"

\* ReadString returns a line: the receive event is formatted; WriteString on
\* a writer that already failed returns its error and the loop continues
OutRead(c, line) ==
    LET data == line \o <<NL>>
        text == TrimSpace(data)
        pieces == Pieces(Encode2(prefixReceive, IdOf(c), text))
    IN  /\ hPc[c] = "read"
        /\ sent' = [sent EXCEPT ![c] = Append(@, line)]
        /\ IF werr[c]
           THEN UNCHANGED <<hPc, hq>>
           ELSE /\ hq' = [hq EXCEPT ![c] = pieces]
                /\ hPc' = [hPc EXCEPT ![c] = EmitPc(pieces)]
        /\ UNCHANGED <<startVars, groupVars, out, outOk, faults, connMap, inVars,
                       accVars, remote, werr, hRet, closed>>

\* WriteString flushes a full buffer: one Write of a piece that is not the
\* last; a failure is logged and the loop continues
OutWrite(c) ==
    /\ hPc[c] = "write"
    /\ IF CanWrite
       THEN /\ out' = Append(out, WriteRec(prefixReceive, c, Len(sent[c]), Head(hq[c])))
            /\ hq' = [hq EXCEPT ![c] = Tail(@)]
            /\ hPc' = [hPc EXCEPT ![c] = EmitPc(Tail(hq[c]))]
            /\ UNCHANGED werr
       ELSE /\ werr' = [werr EXCEPT ![c] = TRUE]
            /\ hq' = [hq EXCEPT ![c] = <<>>]
            /\ hPc' = [hPc EXCEPT ![c] = "read"]
            /\ UNCHANGED out
    /\ UNCHANGED <<startVars, groupVars, outOk, faults, connMap, inVars, accVars,
                   peerVars, hRet, closed>>

\* Flush writes the last piece; a failure ends the loop with the error
OutFlush(c) ==
    /\ hPc[c] = "flush"
    /\ IF CanWrite
       THEN /\ out' = Append(out, WriteRec(prefixReceive, c, Len(sent[c]), Head(hq[c])))
            /\ hPc' = [hPc EXCEPT ![c] = "read"]
            /\ UNCHANGED <<werr, hRet>>
       ELSE /\ werr' = [werr EXCEPT ![c] = TRUE]
            /\ hRet' = [hRet EXCEPT ![c] = <<"egress", c, "flush">>]
            /\ hPc' = [hPc EXCEPT ![c] = "dflush"]
            /\ UNCHANGED out
    /\ hq' = [hq EXCEPT ![c] = <<>>]
    /\ UNCHANGED <<startVars, groupVars, outOk, faults, connMap, inVars, accVars,
                   peerVars, closed>>

\* ReadString returns io.EOF or io.ErrClosedPipe (the peer closed its end):
\* the loop returns nil
OutReadEOF(c) ==
    /\ hPc[c] = "read"
    /\ hRet' = [hRet EXCEPT ![c] = NoErr]
    /\ hPc' = [hPc EXCEPT ![c] = "dflush"]
    /\ UNCHANGED <<startVars, groupVars, out, outOk, faults, connMap, inVars, accVars,
                   peerVars, hq, werr, closed>>

\* ReadString returns another error (the connection was reset): the loop
\* returns it
OutReadErr(c) ==
    /\ hPc[c] = "read"
    /\ hRet' = [hRet EXCEPT ![c] = <<"egress", c, "read">>]
    /\ hPc' = [hPc EXCEPT ![c] = "dflush"]
    /\ Fault
    /\ UNCHANGED <<startVars, groupVars, out, outOk, connMap, inVars, accVars,
                   peerVars, hq, werr, closed>>

\* a variant of OutDeferFlush that leaves the disconnect event in the buffer
\* (no Flush)
OutDeferFlush_NoFlush(c) ==
    /\ hPc[c] = "dflush"
    /\ hPc' = [hPc EXCEPT ![c] = "delete"]
    /\ UNCHANGED <<startVars, groupVars, out, outOk, faults, connMap, inVars,
                   accVars, peerVars, hq, werr, hRet, closed>>

\* a variant of OutDeferFlush in which a failed write of the disconnect
\* event makes the deferred function return at once
OutDeferFlush_Abort(c) ==
    /\ hPc[c] = "dflush"
    /\ IF ~werr[c] /\ CanWrite
       THEN /\ out' = Append(out, WriteRec(prefixDisconnect, c, 0,
                               Encode1(prefixDisconnect, IdOf(c))))
            /\ hPc' = [hPc EXCEPT ![c] = "delete"]
            /\ UNCHANGED werr
       ELSE /\ werr' = [werr EXCEPT ![c] = TRUE]
            /\ hPc' = [hPc EXCEPT ![c] = "done"]
            /\ UNCHANGED out
    /\ UNCHANGED <<startVars, groupVars, outOk, faults, connMap, inVars, accVars,
                   peerVars, hq, hRet, closed>>

\* deferred: the disconnect event, WriteString (buffered) and Flush; on a
\* writer that failed, or a stream that fails, the error is only logged
OutDeferFlush(c) ==
    /\ hPc[c] = "dflush"
    /\ IF ~werr[c] /\ CanWrite
       THEN /\ out' = Append(out, WriteRec(prefixDisconnect, c, 0,
                               Encode1(prefixDisconnect, IdOf(c))))
            /\ UNCHANGED werr
       ELSE /\ werr' = [werr EXCEPT ![c] = TRUE]
            /\ UNCHANGED out
    /\ hPc' = [hPc EXCEPT ![c] = CleanupNextPc(hPc[c])]
    /\ UNCHANGED <<startVars, groupVars, outOk, faults, connMap, inVars, accVars,
                   peerVars, hq, hRet, closed>>

\* deferred: delete(b.connMap, port)
OutDelete(c) ==
    /\ hPc[c] = "delete"
    /\ connMap' = [connMap EXCEPT ![IdOf(c)] = NoConn]
    /\ hPc' = [hPc EXCEPT ![c] = CleanupNextPc(hPc[c])]
    /\ UNCHANGED <<startVars, groupVars, out, outOk, faults, inVars, accVars, peerVars,
                   hq, werr, hRet, closed>>

\* deferred: conn.Close(); then the handler returns to the errgroup
OutClose(c) ==
    /\ hPc[c] = "close"
    /\ closed' = [closed EXCEPT ![c] = TRUE]
    /\ hPc' = [hPc EXCEPT ![c] = CleanupNextPc(hPc[c])]
    /\ TaskReturn(hRet[c])
    /\ UNCHANGED <<startVars, out, outOk, faults, connMap, inVars, accVars, peerVars,
                   hq, werr, hRet>>

(***************************************************************************)
(* The specification.                                                      *)
(***************************************************************************)
(* The registry is a plain Go map that three kinds of goroutine use with   *)
(* no lock. A task whose position is a registry statement is executing it: *)
(* nothing in the code makes it wait for another task.                     *)
(***************************************************************************)
\* the tasks executing `b.connMap[port] = conn` or `delete(b.connMap, port)`
RegistryWriters ==
    (IF accPc = "put" THEN {<<"accept", 0>>} ELSE {})
        \cup {<<"egress", c>> : c \in {d \in Conns : hPc[d] = "delete"}}

\* the task executing the lookup `b.connMap[port]`
RegistryReaders == IF inPc = "lookup" THEN {<<"ingress", 0>>} ELSE {}

\* two tasks are in the registry at once and one of them writes
RegistryRace ==
    \E w \in RegistryWriters :
        \E u \in RegistryWriters \cup RegistryReaders : u # w

\* An unsynchronised map access that overlaps a write is a data race. The
\* build either lets the two accesses take effect one after the other (the
\* steps AccPut, OutDelete and IngressDeliver in either order) or the
\* runtime detects it ("fatal error: concurrent map writes") and the
\* process dies: no task takes another step and Start never returns.
RuntimeThrow ==
    /\ RegistryRace
    /\ startPc' = "crashed"
    /\ inPc' = "crashed"
    /\ accPc' = "crashed"
    /\ hPc' = [c \in Conns |-> "crashed"]
    /\ UNCHANGED <<result, groupVars, out, outOk, faults, connMap, inRet,
                   inLog, lastIn, sock, accConn, nconn, ntemp, peerVars, hq, werr,
                   hRet, closed>>

(***************************************************************************)
\* steps that wait for the listener or a peer (a temporary Accept error
\* changes nothing that another task can see; AcceptSpec has it)
NetStep ==
    \/ \E port \in Ports : AcceptConn(port)
    \/ AcceptFatal
    \/ \E c \in Conns : \E line \in PeerLines :
          Len(sent[c]) < MaxLines /\ OutRead(c, line)
    \/ \E c \in Conns : OutReadEOF(c)
    \/ \E c \in Conns : OutReadErr(c)

\* steps that wait for upstream: the input stream and the output stream
UpstreamStep ==
    \/ \E body \in CmdSample : Len(inLog) < MaxCmds /\ IngressLine(body)
    \/ \E wok \in BOOLEAN : IngressDeliver(wok)
    \/ IngressEOF
    \/ IngressReadErr
    \/ OutBreak

\* steps the bridge takes by itself
BridgeStep ==
    \/ StartListen
    \/ StartListenFail
    \/ StartNotify
    \/ StartLaunch
    \/ StartReturn
    \/ IngressCancelled
    \/ AccPut
    \/ AccNotify
    \/ AccSpawn
    \/ \E c \in Conns : OutWrite(c)
    \/ \E c \in Conns : OutFlush(c)
    \/ \E c \in Conns : OutDeferFlush(c)
    \/ \E c \in Conns : OutDelete(c)
    \/ \E c \in Conns : OutClose(c)
    \/ RuntimeThrow

Next == NetStep \/ UpstreamStep \/ BridgeStep

Spec == Init /\ [][Next]_vars

\* The ingress loop on every command line of the alphabet, with connections
\* that are accepted and closed while it runs; peers send nothing and only
\* socket writes fail.
IngressNext ==
    \/ StartListen
    \/ StartNotify
    \/ StartLaunch
    \/ \E port \in Ports : AcceptConn(port)
    \/ AccPut
    \/ AccNotify
    \/ AccSpawn
    \/ \E c \in Conns : OutReadEOF(c)
    \/ \E c \in Conns : OutDeferFlush(c)
    \/ \E c \in Conns : OutDelete(c)
    \/ \E c \in Conns : OutClose(c)
    \/ \E body \in CmdBodies : Len(inLog) < MaxCmds /\ IngressLine(body)
    \/ \E wok \in BOOLEAN : IngressDeliver(wok)
    \/ IngressEOF

IngressSpec == Init /\ [][IngressNext]_vars

\* The acceptor with temporary Accept errors, which change nothing that
\* another task can see: connections come and go by end of stream, the
\* output stream can break, Accept can fail for good.
AcceptNext ==
    \/ StartListen
    \/ StartNotify
    \/ StartLaunch
    \/ StartReturn
    \/ OutBreak
    \/ IngressEOF
    \/ \E port \in Ports : AcceptConn(port)
    \/ ntemp < MaxTempErrs /\ AcceptTemporary
    \/ AcceptFatal
    \/ AccPut
    \/ AccNotify
    \/ AccSpawn
    \/ \E c \in Conns : OutReadEOF(c)
    \/ \E c \in Conns : OutDeferFlush(c)
    \/ \E c \in Conns : OutDelete(c)
    \/ \E c \in Conns : OutClose(c)
    \/ RuntimeThrow

AcceptSpec == Init /\ [][AcceptNext]_vars

\* the command lines of the runs that are about order: two payloads for one
\* port, which either connection, both or none can have
OrderSample == {<<"1", delim, e>> : e \in {"x", delim}}

\* Sessions in which each peer sends several lines and upstream several
\* commands, with two connections open at once; a socket write can fail,
\* nothing else does, and no connection ends.
OrderNext ==
    \/ StartListen
    \/ StartNotify
    \/ StartLaunch
    \/ \E port \in Ports : AcceptConn(port)
    \/ AccPut
    \/ AccNotify
    \/ AccSpawn
    \/ \E c \in Conns : \E line \in PeerLines :
          Len(sent[c]) < OrderLines /\ OutRead(c, line)
    \/ \E c \in Conns : OutWrite(c)
    \/ \E c \in Conns : OutFlush(c)
    \/ \E body \in OrderSample : Len(inLog) < OrderCmds /\ IngressLine(body)
    \/ \E wok \in BOOLEAN : IngressDeliver(wok)

OrderSpec == Init /\ [][OrderNext]_vars

(***************************************************************************)
(* Views of the output stream used by the properties.                      *)
(***************************************************************************)
\* the positions of the output that hold a piece of an event of connection c
\* with the given tag
Writes(tag, c) == {i \in 1..Len(out) : out[i].tag = tag /\ out[i].c = c}

\* two Write calls carry bytes of the same event
SameEvent(i, j) ==
    /\ out[i].tag = out[j].tag
    /\ out[i].c = out[j].c
    /\ out[i].k = out[j].k

\* the disconnect event of connection c is in the output, whole
Disconnected(c) ==
    \E i \in Writes(prefixDisconnect, c) :
        out[i].b = Encode1(prefixDisconnect, IdOf(c))

(***************************************************************************)
(* C1: for every accepted connection, the whole connect event c:id is in   *)
(* the output before any byte of a receive event r:id:... of it.           *)
(***************************************************************************)
C1_ConnectBeforeReceive ==
    \A j \in 1..Len(out) :
        out[j].tag = prefixReceive =>
            \E i \in 1..(j - 1) :
                /\ out[i].tag = prefixConnect
                /\ out[i].c = out[j].c
                /\ out[i].b = Encode1(prefixConnect, IdOf(out[j].c))

\* a receive event of the second connection has been written
C1_Witness == Writes(prefixReceive, 2) # {}

(***************************************************************************)
(* C2, as claimed: once the handler of a connection has stopped, the       *)
(* output holds exactly one disconnect event d:id of it (stated for the    *)
(* sessions whose scope is not cancelled).                                 *)
(***************************************************************************)
C2_ExactlyOneDisconnect ==
    \A c \in Conns :
        (hPc[c] = "done" /\ ~cancelled)
            => Cardinality(Writes(prefixDisconnect, c)) = 1

(***************************************************************************)
(* C2, amended: a connection never has two disconnect events, none of its  *)
(* receive events follows its disconnect event, and once the handler's     *)
(* cleanup has passed its flush there is exactly one disconnect event      *)
(* unless the handler's writer failed.                                     *)
(***************************************************************************)
C2_DisconnectAtMostOnceAndLast ==
    \A c \in Conns :
        /\ Cardinality(Writes(prefixDisconnect, c)) <= 1
        /\ \A i \in Writes(prefixDisconnect, c) :
               \A j \in Writes(prefixReceive, c) : j < i
        /\ (hPc[c] \in {"delete", "close", "done"} /\ ~werr[c])
               => Disconnected(c)

\* a handler has stopped after a receive event and its disconnect event
C2_Witness ==
    \E c \in Conns :
        /\ hPc[c] = "done"
        /\ Writes(prefixReceive, c) # {}
        /\ Disconnected(c)

(***************************************************************************)
(* C3, as claimed: after the input stream ended and handleIncoming         *)
(* returned nil, Start returns nil without any further event from the      *)
(* listener or the peers: when no step of the bridge itself is left, Start *)
(* has returned nil.                                                       *)
(***************************************************************************)
C3_StartReturnsAfterInputEnds ==
    (inPc = "done" /\ inRet = NoErr /\ ~ENABLED BridgeStep)
        => (startPc = "returned" /\ result = NoErr)

(***************************************************************************)
(* C4, as claimed: after a task returned a fatal error, every other task   *)
(* is unblocked and Start returns that first error: when no step of the    *)
(* bridge itself is left, Start has returned the group's first error.      *)
(***************************************************************************)
C4_FatalErrorEndsSession ==
    (firstErr # NoErr /\ ~ENABLED BridgeStep)
        => (startPc = "returned" /\ result = firstErr)

(***************************************************************************)
(* C5, as claimed: the bytes of one event are never split by bytes of      *)
(* another event on the output stream.                                     *)
(***************************************************************************)
C5_EventsWhole ==
    \A i, j, k \in 1..Len(out) :
        (i < j /\ j < k /\ SameEvent(i, k)) => SameEvent(i, j)

(***************************************************************************)
(* C6, as claimed: handleAccept never stores a connection under an         *)
(* identifier that is already a key of the registry.                       *)
(***************************************************************************)
C6_NoLiveEntryOverwritten ==
    accPc = "put" => connMap[IdOf(accConn)] = NoConn

(***************************************************************************)
(* C7, as claimed: for a command id:expr read while id is registered,      *)
(* exactly the bytes after the first delimiter of the line, up to its      *)
(* newline, are written to the socket registered under id.                 *)
(***************************************************************************)
\* the line without its terminating newline
LineOf(data) == SubSeq(data, 1, Len(data) - 1)
\* the fields of a command as the protocol defines them
CmdId(data) == SubSeq(LineOf(data), 1, FirstDelim(LineOf(data)) - 1)
CmdExpr(data) ==
    SubSeq(LineOf(data), FirstDelim(LineOf(data)) + 1, Len(LineOf(data)))

C7_ExprVerbatim ==
    (lastIn.res = "ok" /\ CmdId(lastIn.data) \in Ports)
        => /\ sock[lastIn.c] # <<>>
           /\ sock[lastIn.c][Len(sock[lastIn.c])] = CmdExpr(lastIn.data)

(***************************************************************************)
(* C8, as claimed: in no state is the disconnect event d:id of a           *)
(* connection in the output while the registry still maps id to it.        *)
(***************************************************************************)
C8_DisconnectedMeansUnregistered ==
    \A c \in Conns :
        Disconnected(c) => connMap[IdOf(c)] # c

(***************************************************************************)
(* C9: the address event is written once and first: it is the first write  *)
(* of the output and no other write is an address event, the loops run     *)
(* only after it is in the output, and when Listen or the write of the     *)
(* address fails Start returns the error with no loop started.             *)
(***************************************************************************)
C9_AddressFirst ==
    /\ \A i \in 1..Len(out) :
           (out[i].tag = prefixAddress) <=> (i = 1)
    /\ (inPc # "idle" \/ accPc # "idle")
           => (/\ Len(out) >= 1
               /\ out[1].b = Encode1(prefixAddress, ListenAddr))
    /\ (startPc = "returned" /\ result[1] = "start")
           => (inPc = "idle" /\ accPc = "idle" /\ Len(out) = 0)

\* both loops run and a connect event follows the address event
C9_Witness ==
    /\ inPc = "read"
    /\ Len(out) >= 2
    /\ out[2].tag = prefixConnect

(***************************************************************************)
(* C10: a command line without delimiter, for an unregistered identifier   *)
(* or whose socket write fails leaves the ingress loop reading, writes     *)
(* nothing to the output and leaves the registry unchanged.                *)
(***************************************************************************)
C10_RecoverableIsLocal ==
    [][(lastIn' # lastIn /\ lastIn'.res \in {"nodelim", "miss", "writefail"})
          => (inPc' = "read" /\ out' = out /\ connMap' = connMap)]_vars

\* a command's socket write failed while a connection was registered
C10_Witness ==
    /\ lastIn.res = "writefail"
    /\ inPc = "read"
    /\ connMap[IdOf(lastIn.c)] = lastIn.c

(***************************************************************************)
(* C11: registry put, get and remove are mutually exclusive: in no state   *)
(* are two tasks executing a registry statement at once when at least one  *)
(* of them is the acceptor's put or a handler's remove.                    *)
(***************************************************************************)
C11_RegistryAccessExclusive == ~RegistryRace

(***************************************************************************)
(* C12: the registry invariant. An identifier is a key of the registry if  *)
(* and only if the socket it maps to is open and a running egress handler  *)
(* owns that socket: no entry without a running handler, and no open       *)
(* connection with a running handler that is missing from the registry.    *)
(***************************************************************************)
\* the egress handler of connection c has started and has not returned
HandlerRunning(c) == hPc[c] \in {"read", "write", "flush", "dflush", "delete", "close"}

C12_RegistryInvariant ==
    /\ \A p \in Ports :
          connMap[p] # NoConn
              => (~closed[connMap[p]] /\ HandlerRunning(connMap[p]))
    /\ \A c \in Conns :
          (HandlerRunning(c) /\ ~closed[c]) => connMap[IdOf(c)] = c

\* the entry the code leaves behind for good: the acceptor has returned
\* after a failed connect event, its connection is registered and open and
\* no handler was started for it
C12_EntryWithoutHandler ==
    ~(/\ accPc = "done"
      /\ accConn # NoConn
      /\ hPc[accConn] = "idle"
      /\ connMap[IdOf(accConn)] = accConn
      /\ ~closed[accConn])

(***************************************************************************)
(* C13: a registry entry is removed by the egress handler of the           *)
(* connection the entry holds and by nothing else: every step that takes   *)
(* an entry away or changes the connection it holds is the remove of the   *)
(* handler of that very connection.                                        *)
(***************************************************************************)
C13_RemovedByOwnHandler ==
    [][\A p \in Ports :
          (connMap[p] # NoConn /\ connMap'[p] # connMap[p])
              => /\ connMap'[p] = NoConn
                 /\ hPc[connMap[p]] = "delete"
                 /\ hPc'[connMap[p]] = "close"]_vars

\* C13, the part that is about the handlers only: the remove in the cleanup
\* of a handler takes away no entry that holds another connection
C13_CleanupRemovesOwnEntry ==
    [][\A c \in Conns :
          (hPc[c] = "delete" /\ hPc'[c] = "close")
              => \A p \in Ports :
                    connMap'[p] # connMap[p] => connMap[p] \in {c, NoConn}]_vars

(***************************************************************************)
(* C14: on every exit path of an egress handler its cleanup runs to        *)
(* completion. A handler in its cleanup always has its next cleanup step   *)
(* enabled, whatever became of the disconnect event; a handler that has    *)
(* returned has removed its identifier and closed its socket; and no       *)
(* cleanup step changes the value the handler returns: the errgroup gets   *)
(* the value the loop ended with, and nothing when that value is nil.      *)
(***************************************************************************)
InCleanup(c) == hPc[c] \in {"dflush", "delete", "close"}

C14_CleanupCompletes ==
    /\ [](\A c \in Conns :
            /\ InCleanup(c)
                 => ENABLED (OutDeferFlush(c) \/ OutDelete(c) \/ OutClose(c))
            /\ hPc[c] \in {"close", "done"} => connMap[IdOf(c)] # c
            /\ hPc[c] = "done" => closed[c])
    /\ [][\A c \in Conns :
            InCleanup(c)
              => /\ hRet'[c] = hRet[c]
                 /\ hPc'[c] \in {hPc[c], CleanupNextPc(hPc[c]), "crashed"}
                 /\ firstErr' # firstErr
                      => (hPc'[c] = "done" => firstErr' = hRet[c])
                 /\ (hPc'[c] = "done" /\ hRet[c] = NoErr)
                      => (firstErr' = firstErr /\ cancelled' = cancelled)]_vars

\* a handler ended by its peer's end of stream could not write its
\* disconnect event, and has removed its identifier, closed its socket and
\* returned nil; the session has no error
C14_Witness ==
    \E c \in Conns :
        /\ hPc[c] = "done"
        /\ werr[c]
        /\ ~Disconnected(c)
        /\ hRet[c] = NoErr
        /\ closed[c]
        /\ connMap[IdOf(c)] = NoConn
        /\ firstErr = NoErr
        /\ ~cancelled

(***************************************************************************)
(* C15: every failure to hand a receive event to the output stream is      *)
(* fatal for the handler: the step in which the WriteString or the Flush   *)
(* of a receive event fails on the output stream (the session not being    *)
(* cancelled) takes the handler out of its loop with an error to return.   *)
(***************************************************************************)
C15_OutputFailureIsFatal ==
    [][\A c \in Conns :
          (hPc[c] \in {"write", "flush"} /\ ~cancelled /\ ~werr[c] /\ werr'[c])
              => (hPc'[c] = "dflush" /\ hRet'[c] # NoErr)]_vars

(***************************************************************************)
(* C16: end of stream on one connection's socket ends only that            *)
(* connection's handler. In every step the handler takes from reading the  *)
(* end of stream to its return, it records no error, the scope is not      *)
(* cancelled, the ingress loop, the acceptor and the other handlers stay   *)
(* where they are, and every registry entry of another connection stays.   *)
(***************************************************************************)
\* handler c takes a step of its normal termination
EOFStep(c) ==
    /\ hPc'[c] \notin {hPc[c], "crashed"}
    /\ \/ hPc[c] = "read" /\ hPc'[c] = "dflush" /\ hRet'[c] = NoErr
       \/ InCleanup(c) /\ hRet[c] = NoErr

\* what such a step leaves alone, but for the registry
OthersKeepRunning(c) ==
    /\ hRet'[c] = NoErr
    /\ cancelled' = cancelled
    /\ firstErr' = firstErr
    /\ inPc' = inPc
    /\ accPc' = accPc
    /\ \A d \in Conns \ {c} : hPc'[d] = hPc[d] /\ closed'[d] = closed[d]

C16_EOFEndsOnlyThatHandler ==
    [][\A c \in Conns :
          EOFStep(c)
              => /\ OthersKeepRunning(c)
                 /\ \A p \in Ports :
                       connMap[p] \notin {c, NoConn}
                           => connMap'[p] = connMap[p]]_vars

\* C16 without its last words (the registry entries of the others)
C16_EOFLeavesTasksRunning ==
    [][\A c \in Conns : EOFStep(c) => OthersKeepRunning(c)]_vars

(***************************************************************************)
(* C17: accept errors are classified. A temporary error leaves the         *)
(* acceptor at its Accept call, with the registry, the output, the         *)
(* connections and the session's error as they were, so that it can be     *)
(* followed by any number of further ones; any other error makes the       *)
(* acceptor return an error to the session, and an acceptor that has       *)
(* returned accepts no further connection.                                 *)
(***************************************************************************)
C17_AcceptErrorsClassified ==
    /\ [][ntemp' # ntemp
            => /\ accPc = "accept" /\ accPc' = "accept"
               /\ connMap' = connMap
               /\ out' = out
               /\ nconn' = nconn
               /\ firstErr' = firstErr /\ cancelled' = cancelled
               /\ hPc' = hPc /\ inPc' = inPc]_vars
    /\ [][(accPc = "accept" /\ accPc' = "done")
            => (firstErr' # NoErr /\ cancelled')]_vars
    /\ [][accPc = "done"
            => (accPc' \in {"done", "crashed"} /\ nconn' = nconn)]_vars

\* two temporary errors in a row, then a connection was accepted and
\* announced, then Accept failed for good and the acceptor returned that error
C17_Witness ==
    /\ ntemp = MaxTempErrs
    /\ nconn = 1
    /\ Writes(prefixConnect, 1) # {}
    /\ accPc = "done"
    /\ firstErr = <<"accept", 0, "accept">>

(***************************************************************************)
(* C18: put comes before the connect event and before the handler's start. *)
(* Whenever the connect event of a connection is in the output, or its     *)
(* handler has started, the registry maps the connection's identifier to   *)
(* the connection, so that a command sent in reaction to the event finds   *)
(* it, unless a remove of that identifier has run since or a later         *)
(* connection has taken the identifier.                                    *)
(***************************************************************************)
\* a lookup of the identifier of connection c finds c
Found(c) == connMap[IdOf(c)] = c

\* the cleanup of a handler has removed the identifier of connection c
Removed(c) ==
    \E d \in 1..nconn : IdOf(d) = IdOf(c) /\ hPc[d] \in {"close", "done"}

\* a later put has stored another connection under the identifier of c
Replaced(c) == connMap[IdOf(c)] \notin {c, NoConn}

C18_PutBeforeConnect ==
    startPc # "crashed" =>
        \A c \in Conns :
            (Writes(prefixConnect, c) # {} \/ hPc[c] # "idle")
                => (Found(c) \/ Removed(c) \/ Replaced(c))

\* the connect event of a connection is out, its handler has not started
\* yet, and a command for it has found it and was written to its socket
C18_Witness ==
    \E c \in Conns :
        /\ Writes(prefixConnect, c) # {}
        /\ hPc[c] = "idle"
        /\ lastIn.res = "ok"
        /\ lastIn.c = c
        /\ sock[c] # <<>>

(***************************************************************************)
(* C19: no connection is leaked by the end of the session. Whenever Start  *)
(* has returned, every connection that was accepted is closed and the      *)
(* registry is empty.                                                      *)
(***************************************************************************)
C19_NoLeakAtReturn ==
    startPc = "returned"
        => /\ \A c \in 1..nconn : closed[c]
           /\ \A p \in Ports : connMap[p] = NoConn

(***************************************************************************)
(* C20: per-connection order is preserved in both directions. The bytes of *)
(* the receive events of one connection come in the output in the order    *)
(* its lines were read from the socket, each event made of the line with   *)
(* that place; and the payloads written to one socket are, in that order,  *)
(* payloads of commands for its identifier in the order they were read.    *)
(***************************************************************************)
RECURSIVE Flatten(_)
Flatten(ss) == IF ss = <<>> THEN <<>> ELSE Head(ss) \o Flatten(Tail(ss))

IsPrefix(a, b) == Len(a) <= Len(b) /\ SubSeq(b, 1, Len(a)) = a

RECURSIVE IsSubseq(_, _)
IsSubseq(a, b) ==
    IF a = <<>> THEN TRUE
    ELSE IF b = <<>> THEN FALSE
    ELSE IF Head(a) = Head(b) THEN IsSubseq(Tail(a), Tail(b))
    ELSE IsSubseq(a, Tail(b))

\* the bytes in the output of the receive event of the k-th line of c
RBytes(c, k) ==
    LET sel == SelectSeq(out, LAMBDA r : r.tag = prefixReceive /\ r.c = c /\ r.k = k)
    IN  Flatten([i \in 1..Len(sel) |-> sel[i].b])

\* the receive event the loop makes of the k-th line read from c
REvent(c, k) ==
    Encode2(prefixReceive, IdOf(c), TrimSpace(sent[c][k] \o <<NL>>))

\* the payloads of the commands read so far whose identifier is that of c
CmdsFor(c) ==
    LET sel == SelectSeq(inLog, LAMBDA d : /\ Len(CmdFields(d)) = 2
                                          /\ CmdFields(d)[1] = IdOf(c))
    IN  [i \in 1..Len(sel) |-> CmdFields(sel[i])[2]]

C20_OrderPreserved ==
    \A c \in Conns :
        /\ \A i, j \in Writes(prefixReceive, c) : i < j => out[i].k <= out[j].k
        /\ \A i \in Writes(prefixReceive, c) : out[i].k \in 1..Len(sent[c])
        /\ \A k \in 1..Len(sent[c]) : IsPrefix(RBytes(c, k), REvent(c, k))
        /\ IsSubseq(sock[c], CmdsFor(c))

\* one connection has sent two different lines, both of whose events are
\* in the output, and has been written two different payloads, while events
\* of the other connection are in the output too
C20_Witness ==
    \E c \in Conns :
        /\ Len(sent[c]) = 2
        /\ sent[c][1] # sent[c][2]
        /\ RBytes(c, 1) = REvent(c, 1)
        /\ RBytes(c, 2) = REvent(c, 2)
        /\ Len(sock[c]) = 2
        /\ sock[c][1] # sock[c][2]
        /\ \E d \in Conns \ {c} : Writes(prefixReceive, d) # {}

====
